---------------------------- MODULE Spec2Model ----------------------------
(***************************************************************************)
(* A model of the variant-C (BME680) driver of go-bsbmp and of the driver  *)
(* construction NewBMP: the register transport as the driver sees it, the  *)
(* calibration store, the busy poll, the raw-sample reads and the          *)
(* fixed-point compensation formulas.                                      *)
(*                                                                         *)
(* TLC's integers are 32 bits wide, the formulas are 64 bits wide: whole   *)
(* numbers are therefore kept as a sign and a magnitude, the magnitude a   *)
(* little-endian sequence of digits in base 2^15, and every Go operation   *)
(* is the exact operation followed by the wrap to the width of its type.   *)
(***************************************************************************)
EXTENDS Integers, Sequences, FiniteSets, TLC

----------------------------------------------------------------------------
(* Natural numbers of any size: little-endian digits in base 2^15, no      *)
(* leading zero; <<>> is zero. Carries are found by look-ahead rather than *)
(* by recursion over the digits, which keeps TLC's evaluation shallow.     *)

Base == 2 ^ 15

\* v under the name F gives it: the value is computed once, however often F
\* uses it
Let(v, F(_)) == F(v)

Digit(a, i) == IF i >= 1 /\ i <= Len(a) THEN a[i] ELSE 0

\* the digits f[1] .. f[n], as a sequence
DigitsOf(f, n) == SubSeq(f, 1, n)

\* the place of the highest digit of a that is not 0, 0 when there is none
TopDigit(a) ==
    IF \A i \in DOMAIN a : a[i] = 0 THEN 0
    ELSE CHOOSE i \in DOMAIN a : a[i] /= 0 /\ \A j \in (i + 1)..Len(a) : a[j] = 0

NatNorm(a) == SubSeq(a, 1, TopDigit(a))

\* 0 <= n < 2^31
NatOfInt(n) == NatNorm(<<n % Base, (n \div Base) % Base, n \div (Base * Base)>>)

\* the carry into digit i of a + b
AddCarry(a, b, i) ==
    IF \E j \in 1..(i - 1) :
          /\ Digit(a, j) + Digit(b, j) >= Base
          /\ \A k \in (j + 1)..(i - 1) : Digit(a, k) + Digit(b, k) = Base - 1
    THEN 1 ELSE 0

NatAddLen(a, b, n) ==
    NatNorm(DigitsOf([i \in 1..n |-> (Digit(a, i) + Digit(b, i) + AddCarry(a, b, i)) % Base], n))

NatAdd(a, b) == NatAddLen(a, b, (IF Len(a) > Len(b) THEN Len(a) ELSE Len(b)) + 1)

\* the borrow from digit i of a - b
SubBorrow(a, b, i) ==
    IF \E j \in 1..(i - 1) :
          /\ a[j] < Digit(b, j)
          /\ \A k \in (j + 1)..(i - 1) : a[k] = Digit(b, k)
    THEN 1 ELSE 0

\* a - b, for a >= b
NatSub(a, b) ==
    NatNorm(DigitsOf([i \in 1..Len(a) |-> (a[i] - Digit(b, i) - SubBorrow(a, b, i) + Base) % Base],
                     Len(a)))

NatLess(a, b) ==
    IF Len(a) /= Len(b) THEN Len(a) < Len(b)
    ELSE \E i \in DOMAIN a : a[i] < b[i] /\ \A j \in DOMAIN a : j > i => a[j] = b[j]

\* a * Base^k
NatShift(a, k) == IF a = <<>> THEN a ELSE [i \in 1..k |-> 0] \o a

\* the sum over i..Len(a) of the low (part = 0) or high (part = 1) halves of
\* the digit products a[i] * b[k + 1 - i], the products of column k
RECURSIVE NatColumn(_, _, _, _, _)
NatColumn(a, b, k, part, i) ==
    IF i > Len(a) THEN 0
    ELSE (IF part = 0 THEN (a[i] * Digit(b, k + 1 - i)) % Base
                      ELSE (a[i] * Digit(b, k + 1 - i)) \div Base)
         + NatColumn(a, b, k, part, i + 1)

\* the sum of the n columns, lo and hi the sums of their low and high halves
NatSumColumns(lo, hi, n) ==
    NatAdd(NatAdd(NatNorm(DigitsOf([k \in 1..n |-> lo[k] % Base], n)),
                  NatShift(NatNorm(DigitsOf([k \in 1..n |-> lo[k] \div Base], n)), 1)),
           NatAdd(NatShift(NatNorm(DigitsOf([k \in 1..n |-> hi[k] % Base], n)), 1),
                  NatShift(NatNorm(DigitsOf([k \in 1..n |-> hi[k] \div Base], n)), 2)))

NatMulLen(a, b, n) ==
    NatSumColumns(DigitsOf([k \in 1..n |-> NatColumn(a, b, k, 0, 1)], n),
                  DigitsOf([k \in 1..n |-> NatColumn(a, b, k, 1, 1)], n), n)

\* a * b: the columns of the schoolbook product, each split into digits
NatMul(a, b) == IF a = <<>> \/ b = <<>> THEN <<>> ELSE NatMulLen(a, b, Len(a) + Len(b))

\* the digits i .. 1 of a divided by d, 0 < d < 2^16, with r the remainder
\* of the digits above: the quotient's digits i .. 1, lowest first
RECURSIVE NatDivFrom(_, _, _, _)
NatDivFrom(a, d, i, r) ==
    IF i = 0 THEN <<>>
    ELSE NatDivFrom(a, d, i - 1, (r * Base + a[i]) % d) \o <<(r * Base + a[i]) \div d>>

\* a div d, for 0 < d < 2^16
NatDivSmall(a, d) == NatNorm(NatDivFrom(a, d, Len(a), 0))

\* a div (the product of the factors), each factor below 2^16: rounding
\* down after each factor is rounding down once after their product
RECURSIVE NatDivBy(_, _)
NatDivBy(a, factors) ==
    IF factors = <<>> THEN a
    ELSE NatDivBy(NatDivSmall(a, Head(factors)), Tail(factors))

\* 2^k
NatPow2(k) == [i \in 1..(k \div 15) + 1 |-> IF i = (k \div 15) + 1 THEN 2 ^ (k % 15) ELSE 0]

\* a mod 2^k: the low k bits
NatLow(a, k) ==
    NatNorm(DigitsOf([i \in 1..(k \div 15) + 1 |->
                         IF i = (k \div 15) + 1 THEN Digit(a, i) % (2 ^ (k % 15))
                         ELSE Digit(a, i)], (k \div 15) + 1))

----------------------------------------------------------------------------
(* Whole numbers: a sign and a magnitude; zero is never negative.          *)

ZMake(neg, mag) == [neg |-> neg /\ mag /= <<>>, mag |-> mag]
ZOfInt(n) == IF n < 0 THEN ZMake(TRUE, NatOfInt(-n)) ELSE ZMake(FALSE, NatOfInt(n))
ZNeg(a) == ZMake(~a.neg, a.mag)

ZAdd(a, b) ==
    IF a.neg = b.neg THEN ZMake(a.neg, NatAdd(a.mag, b.mag))
    ELSE IF NatLess(a.mag, b.mag) THEN ZMake(b.neg, NatSub(b.mag, a.mag))
    ELSE ZMake(a.neg, NatSub(a.mag, b.mag))

ZSub(a, b) == ZAdd(a, ZNeg(b))
ZMul(a, b) == ZMake(a.neg /= b.neg, NatMul(a.mag, b.mag))

\* Go's integer division truncates toward zero; the divisor is the product
\* of the factors, each positive and below 2^16
ZQuo(a, factors) == ZMake(a.neg, NatDivBy(a.mag, factors))

ZLess(a, b) ==
    IF a.neg /= b.neg THEN a.neg
    ELSE IF a.neg THEN NatLess(b.mag, a.mag)
    ELSE NatLess(a.mag, b.mag)

\* the number modulo 2^k, low its magnitude modulo 2^k
WrapLow(neg, low, k) ==
    IF ~neg \/ low = <<>> THEN ZMake(FALSE, low)
    ELSE ZMake(FALSE, NatSub(NatPow2(k), low))

\* the conversion to Go's unsigned type of k bits: a modulo 2^k
WrapU(a, k) == WrapLow(a.neg, NatLow(a.mag, k), k)

\* u, below 2^k, read as two's complement of k bits
Signed(u, k) ==
    IF NatLess(u.mag, NatPow2(k - 1)) THEN u
    ELSE ZMake(TRUE, NatSub(NatPow2(k), u.mag))

\* the conversion to Go's signed type of k bits
WrapS(a, k) ==
    IF ~a.neg /\ NatLess(a.mag, NatPow2(k - 1)) THEN a
    ELSE Signed(WrapU(a, k), k)

\* a whole number that fits TLC's integers, as one
ZToInt(a) ==
    (IF a.neg THEN -1 ELSE 1)
    * (Digit(a.mag, 1) + Base * Digit(a.mag, 2) + Base * Base * Digit(a.mag, 3))

----------------------------------------------------------------------------
(* Go's fixed-width integer types: an operation is the exact operation     *)
(* followed by the conversion to the type of its result.                   *)

I32(z) == WrapS(z, 32)
U32(z) == WrapU(z, 32)
I64(z) == WrapS(z, 64)
U64(z) == WrapU(z, 64)

----------------------------------------------------------------------------
(* Bytes.                                                                  *)

Byte == 0..255

RECURSIVE BitAnd(_, _)
BitAnd(a, b) ==
    IF a = 0 \/ b = 0 THEN 0
    ELSE (a % 2) * (b % 2) + 2 * BitAnd(a \div 2, b \div 2)

RECURSIVE BitOr(_, _)
BitOr(a, b) ==
    IF a = 0 THEN b
    ELSE IF b = 0 THEN a
    ELSE (IF a % 2 = 1 \/ b % 2 = 1 THEN 1 ELSE 0) + 2 * BitOr(a \div 2, b \div 2)

ToUint8(n) == n % 256
ToUint16(n) == n % 65536
ToInt8(n) == IF n % 256 >= 128 THEN (n % 256) - 256 ELSE n % 256
ToInt16(n) == IF n % 65536 >= 32768 THEN (n % 65536) - 65536 ELSE n % 65536

----------------------------------------------------------------------------
(* The register map of the BME680 and of the construction.                 *)

ID_REG == 208
BME680_STATUS_REG == 3
BME680_OSR_REG == 116
BME680_PWR_CTRL_REG == 27
BME680_CONFIG == 117
BME680_COEF_START == 49
BME680_COEF_BYTES == 21
BME680_PRES_OUT_MSB_LSB_XLSB == 4
BME680_TEMP_OUT_MSB_LSB_XLSB == 34
BME680_PWR_MODE_FORCED == 1
BME680_coef_0 == 0

ACCURACY_ULTRA_LOW == 0
ACCURACY_LOW == 1
ACCURACY_STANDARD == 2
ACCURACY_HIGH == 3
ACCURACY_ULTRA_HIGH == 4
ACCURACY_HIGHEST == 5

----------------------------------------------------------------------------
(* CoeffBME680: the 21 calibration bytes COEF_31 .. COEF_45, c[1] .. c[21],*)
(* and the coefficients read out of them.                                  *)

PAR_T1(c) == ToUint16(c[2] * 256 + c[1])
PAR_T2(c) == ToUint16(c[4] * 256 + c[3])
PAR_T3(c) == ToInt8(c[5])
PAR_P1(c) == ToInt16(c[7] * 256 + c[6])
PAR_P2(c) == ToInt16(c[9] * 256 + c[8])
PAR_P3(c) == ToInt8(c[10])
PAR_P4(c) == ToInt8(c[11])
PAR_P5(c) == ToUint16(c[13] * 256 + c[12])
PAR_P6(c) == ToUint16(c[15] * 256 + c[14])
PAR_P7(c) == ToInt8(c[16])
PAR_P8(c) == ToInt8(c[17])
PAR_P9(c) == ToInt16(c[19] * 256 + c[18])
PAR_P10(c) == ToInt8(c[20])
PAR_P11(c) == ToInt8(c[21])

----------------------------------------------------------------------------
(* The compensation formulas, operation by operation as the accessors      *)
(* evaluate them: every intermediate of the Go code is a field of the      *)
(* result, under the name of its variable (a variable assigned again gets  *)
(* _2, _3, _4). ut and up are the raw samples (int32), c the 21 bytes of   *)
(* v.Coeff.                                                                *)

Z(n) == ZOfInt(n)
MulI64(a, b) == I64(ZMul(a, b))
AddI64(a, b) == I64(ZAdd(a, b))
SubI64(a, b) == I64(ZSub(a, b))
QuoI64(a, factors) == I64(ZQuo(a, factors))
MulU64(a, b) == U64(ZMul(a, b))
QuoU64(a, factors) == U64(ZQuo(a, factors))

\* the divisors that do not fit 16 bits, as factors
Div4294967269 == <<277, 433, 35809>>
Div16777216 == <<4096, 4096>>
Div65536 == <<256, 256>>
Div1099511627776 == <<1024, 1024, 1024, 1024>>

\* ReadTemperatureMult100C, the formula
TempFormula(ut, c) ==
    Let(U64(I32(ZSub(Z(ut), I32(ZMul(Z(256), I32(Z(PAR_T1(c)))))))),
        LAMBDA partial_data1 :
    Let(MulU64(U64(Z(PAR_T2(c))), partial_data1),
        LAMBDA partial_data2 :
    Let(MulU64(partial_data1, partial_data1),
        LAMBDA partial_data3 :
    Let(MulI64(I64(partial_data3), Z(PAR_T3(c))),
        LAMBDA partial_data4 :
    Let(AddI64(I64(MulU64(partial_data2, Z(262144))), partial_data4),
        LAMBDA partial_data5 :
    Let(QuoI64(partial_data5, Div4294967269),
        LAMBDA partial_data6 :
    Let(I32(QuoI64(MulI64(partial_data6, Z(25)), <<16384>>)),
        LAMBDA t :
    [partial_data1 |-> partial_data1,
     partial_data2 |-> partial_data2,
     partial_data3 |-> partial_data3,
     partial_data4 |-> partial_data4,
     partial_data5 |-> partial_data5,
     partial_data6 |-> partial_data6,
     t |-> t])))))))

\* a plausible slip: the copy of the temperature formula in the pressure
\* accessor leaves out the term of PAR_T3
LinFormula_NoT3(ut, c) ==
    Let(U64(I32(ZSub(Z(ut), I32(ZMul(Z(256), I32(Z(PAR_T1(c)))))))),
        LAMBDA partial_data1_t :
    Let(MulU64(U64(Z(PAR_T2(c))), partial_data1_t),
        LAMBDA partial_data2_t :
    Let(MulU64(partial_data1_t, partial_data1_t),
        LAMBDA partial_data3_t :
    Let(MulI64(I64(partial_data3_t), Z(PAR_T3(c))),
        LAMBDA partial_data4_t :
    Let(I64(MulU64(partial_data2_t, Z(262144))),
        LAMBDA partial_data5_t :
    Let(QuoI64(partial_data5_t, Div4294967269),
        LAMBDA partial_data6_t :
    [partial_data1_t |-> partial_data1_t,
     partial_data2_t |-> partial_data2_t,
     partial_data3_t |-> partial_data3_t,
     partial_data4_t |-> partial_data4_t,
     partial_data5_t |-> partial_data5_t,
     partial_data6_t |-> partial_data6_t,
     t_lin |-> partial_data6_t]))))))

\* ReadPressureMult10Pa, the temperature for use in the pressure formula
LinFormula(ut, c) ==
    Let(U64(I32(ZSub(Z(ut), I32(ZMul(Z(256), I32(Z(PAR_T1(c)))))))),
        LAMBDA partial_data1_t :
    Let(MulU64(U64(Z(PAR_T2(c))), partial_data1_t),
        LAMBDA partial_data2_t :
    Let(MulU64(partial_data1_t, partial_data1_t),
        LAMBDA partial_data3_t :
    Let(MulI64(I64(partial_data3_t), Z(PAR_T3(c))),
        LAMBDA partial_data4_t :
    Let(AddI64(I64(MulU64(partial_data2_t, Z(262144))), partial_data4_t),
        LAMBDA partial_data5_t :
    Let(QuoI64(partial_data5_t, Div4294967269),
        LAMBDA partial_data6_t :
    [partial_data1_t |-> partial_data1_t,
     partial_data2_t |-> partial_data2_t,
     partial_data3_t |-> partial_data3_t,
     partial_data4_t |-> partial_data4_t,
     partial_data5_t |-> partial_data5_t,
     partial_data6_t |-> partial_data6_t,
     t_lin |-> partial_data6_t]))))))

\* ReadPressureMult10Pa, up to offset
OffsetFormula(t_lin, c) ==
    Let(MulI64(t_lin, t_lin),
        LAMBDA partial_data1 :
    Let(QuoI64(partial_data1, <<64>>),
        LAMBDA partial_data2 :
    Let(QuoI64(MulI64(partial_data2, t_lin), <<256>>),
        LAMBDA partial_data3 :
    Let(QuoI64(MulI64(Z(PAR_P8(c)), partial_data3), <<32>>),
        LAMBDA partial_data4 :
    Let(MulI64(MulI64(Z(PAR_P7(c)), partial_data1), Z(16)),
        LAMBDA partial_data5 :
    Let(MulI64(MulI64(Z(PAR_P6(c)), t_lin), Z(4194304)),
        LAMBDA partial_data6 :
    Let(AddI64(AddI64(AddI64(MulI64(Z(PAR_P5(c)), ZMake(FALSE, NatPow2(47))), partial_data4), partial_data5), partial_data6),
        LAMBDA offset :
    [partial_data1 |-> partial_data1,
     partial_data2 |-> partial_data2,
     partial_data3 |-> partial_data3,
     partial_data4 |-> partial_data4,
     partial_data5 |-> partial_data5,
     partial_data6 |-> partial_data6,
     offset |-> offset])))))))

\* ReadPressureMult10Pa, from offset to sensitivity
SensitivityFormula(t_lin, c, partial_data1, partial_data3) ==
    Let(QuoI64(MulI64(Z(PAR_P4(c)), partial_data3), <<32>>),
        LAMBDA partial_data2_2 :
    Let(MulI64(MulI64(Z(PAR_P3(c)), partial_data1), Z(4)),
        LAMBDA partial_data4_2 :
    Let(MulI64(MulI64(SubI64(Z(PAR_P2(c)), Z(16384)), t_lin), Z(2097152)),
        LAMBDA partial_data5_2 :
    Let(AddI64(AddI64(AddI64(MulI64(SubI64(Z(PAR_P1(c)), Z(16384)), ZMake(FALSE, NatPow2(46))), partial_data2_2), partial_data4_2), partial_data5_2),
        LAMBDA sensitivity :
    [partial_data2_2 |-> partial_data2_2,
     partial_data4_2 |-> partial_data4_2,
     partial_data5_2 |-> partial_data5_2,
     sensitivity |-> sensitivity]))))

\* ReadPressureMult10Pa, from sensitivity to comp_press
PressureFormula(t_lin, up, c, offset, sensitivity) ==
    Let(MulI64(QuoI64(sensitivity, Div16777216), Z(up)),
        LAMBDA partial_data1_2 :
    Let(MulI64(Z(PAR_P10(c)), t_lin),
        LAMBDA partial_data2_3 :
    Let(AddI64(partial_data2_3, MulI64(Z(65536), Z(PAR_P9(c)))),
        LAMBDA partial_data3_2 :
    Let(QuoI64(MulI64(partial_data3_2, Z(up)), <<8192>>),
        LAMBDA partial_data4_3 :
    Let(QuoI64(MulI64(partial_data4_3, Z(up)), <<512>>),
        LAMBDA partial_data5_3 :
    Let(I64(MulU64(U64(Z(up)), U64(Z(up)))),
        LAMBDA partial_data6_2 :
    Let(QuoI64(MulI64(Z(PAR_P11(c)), partial_data6_2), Div65536),
        LAMBDA partial_data2_4 :
    Let(QuoI64(MulI64(partial_data2_4, Z(up)), <<128>>),
        LAMBDA partial_data3_3 :
    Let(AddI64(AddI64(AddI64(QuoI64(offset, <<4>>), partial_data1_2), partial_data5_3), partial_data3_3),
        LAMBDA partial_data4_4 :
    Let(U32(QuoU64(MulU64(U64(partial_data4_4), Z(25)), Div1099511627776)),
        LAMBDA comp_press :
    [partial_data1_2 |-> partial_data1_2,
     partial_data2_3 |-> partial_data2_3,
     partial_data3_2 |-> partial_data3_2,
     partial_data4_3 |-> partial_data4_3,
     partial_data5_3 |-> partial_data5_3,
     partial_data6_2 |-> partial_data6_2,
     partial_data2_4 |-> partial_data2_4,
     partial_data3_3 |-> partial_data3_3,
     partial_data4_4 |-> partial_data4_4,
     comp_press |-> comp_press]))))))))))

\* ReadTemperatureMult100C: t
TempMult100C(ut, c) == TempFormula(ut, c).t

\* ReadPressureMult10Pa: comp_press
PressFromOffset(t_lin, up, c, off) ==
    PressureFormula(t_lin, up, c, off.offset,
                    SensitivityFormula(t_lin, c, off.partial_data1, off.partial_data3).sensitivity)

PressFromLin(t_lin, up, c) == PressFromOffset(t_lin, up, c, OffsetFormula(t_lin, c))

PressMult10Pa(ut, up, c) == PressFromLin(LinFormula(ut, c).t_lin, up, c).comp_press

----------------------------------------------------------------------------
(* Bounds of the model.                                                    *)

\* the polls waitForCompletion makes before it gives up
MaxPolls == 2
\* the length of the longest sequence of status bytes a transport is given
MaxStatusLen == 2
\* the latest transport operation of a call that the failing transport fails
MaxFault == 10

----------------------------------------------------------------------------
(* The transport, as the driver sees it. An environment e of a call holds  *)
(* what the registers answer: e.id the identity byte, e.status the status  *)
(* bytes of the successive status reads (the last one repeats), e.temp and *)
(* e.pres the three bytes of each raw sample, e.coef the calibration       *)
(* block; e.failAt = k > 0 makes the k-th operation of the call fail.      *)
(* A run r is a call in progress: r.ops the operations issued so far,      *)
(* r.err the error of the latest step ("" is nil), r.buf the bytes it      *)
(* read, r.Coeff the sensor's Coeff (<<>> is nil).                         *)

Op(name, reg, out, in, ok) ==
    [op |-> name, reg |-> reg, out |-> out, in |-> in, ok |-> ok]

StartRun(coeff) ==
    [ops |-> <<>>, err |-> "", buf |-> <<>>, busy |-> FALSE, Coeff |-> coeff,
     id |-> 0, ut |-> 0, up |-> 0, val |-> Z(0)]

\* "if err != nil { return err }": the run r ends the call when its latest
\* step failed, F continues it otherwise
Then(r, F(_)) == IF r.err /= "" THEN r ELSE F(r)

Transfer(r, e, name, reg, out, resp) ==
    IF Len(r.ops) + 1 = e.failAt
    THEN [r EXCEPT !.ops = Append(@, Op(name, reg, out, <<>>, FALSE)),
                   !.err = "IOError", !.buf = <<>>]
    ELSE [r EXCEPT !.ops = Append(@, Op(name, reg, out, resp, TRUE)),
                   !.err = "", !.buf = resp]

IsStatusRead(o) == o.op = "ReadRegU8" /\ o.reg = BME680_STATUS_REG

StatusReads(ops) == Cardinality({i \in DOMAIN ops : IsStatusRead(ops[i])})

\* the k-th status byte of a call, the last one repeating
StatusAt(status, k) == status[IF k > Len(status) THEN Len(status) ELSE k]

Register(r, e, reg) ==
    CASE reg = ID_REG -> <<e.id>>
      [] reg = BME680_STATUS_REG -> <<StatusAt(e.status, StatusReads(r.ops) + 1)>>
      [] reg = BME680_TEMP_OUT_MSB_LSB_XLSB -> e.temp
      [] reg = BME680_PRES_OUT_MSB_LSB_XLSB -> e.pres
      [] reg = BME680_COEF_START -> e.coef
      [] OTHER -> <<0>>

ReadRegU8(r, e, reg) == Transfer(r, e, "ReadRegU8", reg, <<>>, Register(r, e, reg))
WriteRegU8(r, e, reg, value) == Transfer(r, e, "WriteRegU8", reg, <<value>>, <<>>)
ReadRegBytes(r, e, reg, n) ==
    Transfer(r, e, "ReadRegBytes", reg, <<>>, SubSeq(Register(r, e, reg), 1, n))
WriteBytes(r, e, buf) == Transfer(r, e, "WriteBytes", Head(buf), buf, <<>>)

\* the read of byteCount bytes from the address at
ReadBytesAt(r, e, at, byteCount) ==
    Transfer(r, e, "ReadBytes", at, <<>>, SubSeq(Register(r, e, at), 1, byteCount))

\* readDataToStruct: one read of byteCount bytes from the address the
\* latest WriteBytes set
readDataToStruct(r, e, byteCount) == ReadBytesAt(r, e, r.ops[Len(r.ops)].reg, byteCount)

----------------------------------------------------------------------------
(* SensorBME680.                                                           *)

\* ReadCoefficients: the block read replaces v.Coeff
ReadCoefficients(r, e) ==
    Then(WriteBytes(r, e, <<BME680_COEF_START>>), LAMBDA r1 :
    Then(readDataToStruct(r1, e, BME680_COEF_BYTES), LAMBDA r2 :
    [r2 EXCEPT !.Coeff = r2.buf]))

\* checkCoefficient: the name of the coefficient when it is 0x0000 or 0xFFFF
checkCoefficient(coef, name) == IF coef = 0 \/ coef = 65535 THEN name ELSE ""

\* the checks of IsValidCoefficients, in their order
CoefficientChecks(c) ==
    << checkCoefficient(ToUint16(PAR_T1(c)), "PAR_T1"),
       checkCoefficient(ToUint16(PAR_T2(c)), "PAR_T2"),
       checkCoefficient(ToUint16(PAR_T3(c)), "PAR_T3"),
       checkCoefficient(ToUint16(PAR_P1(c)), "PAR_P1"),
       checkCoefficient(ToUint16(PAR_P2(c)), "PAR_P2"),
       checkCoefficient(ToUint16(PAR_P3(c)), "PAR_P3"),
       checkCoefficient(ToUint16(PAR_P5(c)), "PAR_P5"),
       checkCoefficient(ToUint16(PAR_P6(c)), "PAR_P6"),
       checkCoefficient(ToUint16(PAR_P7(c)), "PAR_P7"),
       checkCoefficient(ToUint16(PAR_P8(c)), "PAR_P8"),
       checkCoefficient(ToUint16(PAR_P9(c)), "PAR_P9"),
       checkCoefficient(ToUint16(PAR_P10(c)), "PAR_P10"),
       checkCoefficient(ToUint16(PAR_P11(c)), "PAR_P11") >>

\* "if err != nil { return err }" over the check results: the first error,
\* "" when there is none
FirstError(errs) ==
    IF \A i \in DOMAIN errs : errs[i] = "" THEN ""
    ELSE errs[CHOOSE i \in DOMAIN errs : errs[i] /= "" /\ \A j \in 1..(i - 1) : errs[j] = ""]

\* a plausible slip: the check of PAR_P9 is left out as well
IsValidCoefficients_NoP9(coeff) ==
    IF coeff /= <<>>
    THEN FirstError([i \in 1..13 |-> IF i = 11 THEN "" ELSE CoefficientChecks(coeff)[i]])
    ELSE "CoeffBME680 struct does not build"

\* IsValidCoefficients: "" is nil, otherwise the error (the coefficient named)
IsValidCoefficients(coeff) ==
    IF coeff /= <<>> THEN FirstError(CoefficientChecks(coeff))
    ELSE "CoeffBME680 struct does not build"

\* IsBusy: b = b & 0x60; return b == 0
IsBusy(r, e) ==
    Let(ReadRegU8(r, e, BME680_STATUS_REG), LAMBDA r1 :
    IF r1.err /= "" THEN [r1 EXCEPT !.busy = FALSE]
    ELSE [r1 EXCEPT !.busy = (BitAnd(r1.buf[1], 96) = 0)])

\* waitForCompletion: poll IsBusy until it reports not busy, at most
\* MaxPolls times; the budget exceeded is the error ConversionTimeout
RECURSIVE waitFrom(_, _, _)
waitFrom(r, e, i) ==
    IF i >= MaxPolls THEN [r EXCEPT !.err = "ConversionTimeout"]
    ELSE Then(IsBusy(r, e), LAMBDA r1 :
         IF ~r1.busy THEN r1 ELSE waitFrom(r1, e, i + 1))

waitForCompletion(r, e) == waitFrom(r, e, 0)

getOversamplingRation(accuracy) ==
    CASE accuracy = ACCURACY_ULTRA_LOW -> 0
      [] accuracy = ACCURACY_LOW -> 1
      [] accuracy = ACCURACY_STANDARD -> 2
      [] accuracy = ACCURACY_HIGH -> 3
      [] accuracy = ACCURACY_ULTRA_HIGH -> 4
      [] accuracy = ACCURACY_HIGHEST -> 5
      [] OTHER -> 0

\* the raw sample of three bytes: buf[0] + buf[1]<<8 + buf[2]<<16
RawSample(buf) == buf[1] + buf[2] * 256 + buf[3] * 65536

\* readUncompTemprature: the two control writes, then the read of the
\* sample; the power write and the wait are commented out in the code
readUncompTemprature(r, e, accuracy) ==
    Then(WriteRegU8(r, e, BME680_CONFIG, ToUint8(BME680_coef_0 * 2)), LAMBDA r1 :
    Then(WriteRegU8(r1, e, BME680_OSR_REG,
                    ToUint8(getOversamplingRation(accuracy) * 32)), LAMBDA r2 :
    Then(ReadRegBytes(r2, e, BME680_TEMP_OUT_MSB_LSB_XLSB, 3), LAMBDA r3 :
    [r3 EXCEPT !.ut = RawSample(r3.buf)])))

\* the power byte: pressure and temperature enabled, forced mode
PowerByte == BitOr(ToUint8(BME680_PWR_MODE_FORCED * 16), 3)

\* the oversampling byte: temperature at ACCURACY_STANDARD, pressure as asked
OversamplingByte(accuracy) ==
    BitOr(ToUint8(getOversamplingRation(ACCURACY_STANDARD) * 8),
          getOversamplingRation(accuracy))

\* readUncompTempratureAndPressure after its first wait
afterPower(r, e, accuracy) ==
    Then(WriteRegU8(r, e, BME680_OSR_REG, OversamplingByte(accuracy)), LAMBDA r3 :
    Then(waitForCompletion(r3, e), LAMBDA r4 :
    Then(ReadRegBytes(r4, e, BME680_TEMP_OUT_MSB_LSB_XLSB, 3), LAMBDA r5 :
    Then(ReadRegBytes(r5, e, BME680_PRES_OUT_MSB_LSB_XLSB, 3), LAMBDA r6 :
    [r6 EXCEPT !.ut = RawSample(r5.buf), !.up = RawSample(r6.buf)]))))

\* a plausible slip: the error of the power write is not looked at
readUncompTempratureAndPressure_IgnoreErr(r, e, accuracy) ==
    Let(WriteRegU8(r, e, BME680_PWR_CTRL_REG, PowerByte), LAMBDA r1 :
    Then(waitForCompletion(r1, e), LAMBDA r2 :
    afterPower(r2, e, accuracy)))

\* readUncompTempratureAndPressure
readUncompTempratureAndPressure(r, e, accuracy) ==
    Then(WriteRegU8(r, e, BME680_PWR_CTRL_REG, PowerByte), LAMBDA r1 :
    Then(waitForCompletion(r1, e), LAMBDA r2 :
    afterPower(r2, e, accuracy)))

----------------------------------------------------------------------------
(* What the transport of the model can hold.                               *)

\* calibration blocks: two sets a chip can carry, and the first with PAR_T1
\* erased
BlockA == <<112, 107, 67, 103, 246, 210, 4, 57, 48, 6, 3,
            160, 94, 30, 100, 1, 250, 123, 50, 15, 196>>
BlockB == <<1, 128, 2, 64, 7, 255, 127, 0, 128, 127, 128,
            9, 0, 0, 1, 200, 100, 254, 255, 2, 1>>
BlockErased == [i \in 1..21 |-> IF i \in {1, 2} THEN 255 ELSE BlockA[i]]

CoefBlocks == {BlockA, BlockB, BlockErased}
TempRegs == {<<0, 0, 128>>, <<64, 226, 1>>}
PresRegs == {<<0, 0, 100>>, <<57, 48, 6>>}
IdBytes == {37, 88}
AccuracyModes == {ACCURACY_ULTRA_LOW, ACCURACY_HIGH}

\* the status bytes of a call: no tracked bit set, or both set
StatusBytes == {0, 96}
StatusSeqs == UNION {[1..n -> StatusBytes] : n \in 1..MaxStatusLen}

\* the values of the two formulas on what the transport can hold, computed
\* once
TempTable ==
    {<<RawSample(t), c, TempMult100C(RawSample(t), c)>> : t \in TempRegs, c \in CoefBlocks}

PressTable ==
    {<<RawSample(t), RawSample(p), c, PressMult10Pa(RawSample(t), RawSample(p), c)>> :
        t \in TempRegs, p \in PresRegs, c \in CoefBlocks}

\* the temperature formula of ReadTemperatureMult100C
Temperature(ut, c) ==
    IF \E x \in TempTable : x[1] = ut /\ x[2] = c
    THEN (CHOOSE x \in TempTable : x[1] = ut /\ x[2] = c)[3]
    ELSE TempMult100C(ut, c)

\* the pressure formula of ReadPressureMult10Pa
Pressure(ut, up, c) ==
    IF \E x \in PressTable : x[1] = ut /\ x[2] = up /\ x[3] = c
    THEN (CHOOSE x \in PressTable : x[1] = ut /\ x[2] = up /\ x[3] = c)[4]
    ELSE PressMult10Pa(ut, up, c)

----------------------------------------------------------------------------
(* The accessors of SensorBME680 and the construction of BMP.              *)

\* a plausible slip: the formula runs on the coefficients the sensor held
\* before the re-read
ReadTemperatureMult100C_Stale(r, e, accuracy) ==
    Then(readUncompTemprature(r, e, accuracy), LAMBDA r1 :
    Then(ReadCoefficients(r1, e), LAMBDA r2 :
    [r2 EXCEPT !.val = Temperature(r1.ut, r1.Coeff)]))

\* ReadTemperatureMult100C
ReadTemperatureMult100C(r, e, accuracy) ==
    Then(readUncompTemprature(r, e, accuracy), LAMBDA r1 :
    Then(ReadCoefficients(r1, e), LAMBDA r2 :
    [r2 EXCEPT !.val = Temperature(r2.ut, r2.Coeff)]))

\* a plausible slip: the calibration block is not read again
ReadPressureMult10Pa_NoReload(r, e, accuracy) ==
    Then(readUncompTempratureAndPressure(r, e, accuracy), LAMBDA r1 :
    [r1 EXCEPT !.val = Pressure(r1.ut, r1.up, r1.Coeff)])

\* ReadPressureMult10Pa
ReadPressureMult10Pa(r, e, accuracy) ==
    Then(readUncompTempratureAndPressure(r, e, accuracy), LAMBDA r1 :
    Then(ReadCoefficients(r1, e), LAMBDA r2 :
    [r2 EXCEPT !.val = Pressure(r2.ut, r2.up, r2.Coeff)]))

\* GetSensorSignature of the BME680: the byte RecognizeSignature accepts
GetSensorSignature == 37

\* readSensorID
readSensorID(r, e) ==
    Then(ReadRegU8(r, e, ID_REG), LAMBDA r1 : [r1 EXCEPT !.id = r1.buf[1]])

\* a plausible slip: the identity byte is not compared
NewBMP_NoSignatureCheck(e) ==
    Then(readSensorID(StartRun(<<>>), e), LAMBDA r1 : ReadCoefficients(r1, e))

\* NewBMP, with the BME680 as the sensor v.bmp: a run with err = "" returns
\* the driver, any other returns nil
NewBMP(e) ==
    Then(readSensorID(StartRun(<<>>), e), LAMBDA r1 :
    IF r1.id /= GetSensorSignature
    THEN [r1 EXCEPT !.err = "SignatureMismatch"]
    ELSE ReadCoefficients(r1, e))

----------------------------------------------------------------------------
(* The state: the driver, the registers of the chip behind the transport,  *)
(* and the latest call made.                                               *)

VARIABLES
    constructed,   \* NewBMP has returned a driver
    Coeff,         \* the Coeff of the driver's sensor, <<>> when nil
    t_coef,        \* the calibration block of the chip
    t_temp,        \* the raw temperature bytes of the chip
    t_pres,        \* the raw pressure bytes of the chip
    call           \* the latest call: its inputs, its operations, its results

vars == <<constructed, Coeff, t_coef, t_temp, t_pres, call>>

NoCall ==
    [op |-> "none", accuracy |-> 0, status |-> <<0>>, entry |-> <<>>,
     ops |-> <<>>, err |-> "", val |-> Z(0), driver |-> FALSE, busy |-> FALSE,
     again |-> FALSE, priorVal |-> Z(0)]

\* the environment of a call made now
Env(id, status, failAt) ==
    [id |-> id, status |-> status, failAt |-> failAt,
     coef |-> t_coef, temp |-> t_temp, pres |-> t_pres]

\* the call before this one was the same call, and succeeded
SameAsLast(name, accuracy, status) ==
    /\ call.op = name /\ call.accuracy = accuracy
    /\ call.status = status /\ call.err = ""

\* the accessor name, called with accuracy against the status bytes, ended
\* as run r
Returned(name, accuracy, status, r, again) ==
    /\ Coeff' = r.Coeff
    /\ call' = [op |-> name, accuracy |-> accuracy, status |-> status,
                entry |-> Coeff, ops |-> r.ops, err |-> r.err, val |-> r.val,
                driver |-> FALSE, busy |-> r.busy, again |-> again,
                priorVal |-> IF again THEN call.val ELSE Z(0)]

\* NewBMP ended as run r
Constructed(r) ==
    /\ constructed' = (constructed \/ r.err = "")
    /\ Coeff' = IF r.err = "" THEN r.Coeff ELSE Coeff
    /\ call' = [NoCall EXCEPT !.op = "NewBMP", !.entry = Coeff, !.ops = r.ops,
                              !.err = r.err, !.driver = (r.err = "")]

Init ==
    /\ constructed = FALSE
    /\ Coeff = <<>>
    /\ t_coef = BlockA
    /\ t_temp = <<0, 0, 128>>
    /\ t_pres = <<0, 0, 100>>
    /\ call = NoCall

\* NewBMP against a transport that fails its failAt-th operation (0: none)
DoNewBMP(id, failAt) ==
    /\ Constructed(NewBMP(Env(id, <<0>>, failAt)))
    /\ UNCHANGED <<t_coef, t_temp, t_pres>>

DoReadTemperature(accuracy, status, failAt) ==
    /\ constructed
    /\ Returned("ReadTemperatureMult100C", accuracy, status,
                ReadTemperatureMult100C(StartRun(Coeff), Env(0, status, failAt), accuracy),
                SameAsLast("ReadTemperatureMult100C", accuracy, status))
    /\ UNCHANGED <<constructed, t_coef, t_temp, t_pres>>

DoReadPressure(accuracy, status, failAt) ==
    /\ constructed
    /\ Returned("ReadPressureMult10Pa", accuracy, status,
                ReadPressureMult10Pa(StartRun(Coeff), Env(0, status, failAt), accuracy),
                SameAsLast("ReadPressureMult10Pa", accuracy, status))
    /\ UNCHANGED <<constructed, t_coef, t_temp, t_pres>>

\* the chip's registers change between two calls
TransportChange ==
    /\ \E c \in CoefBlocks, t \in TempRegs, p \in PresRegs :
          /\ <<c, t, p>> /= <<t_coef, t_temp, t_pres>>
          /\ t_coef' = c /\ t_temp' = t /\ t_pres' = p
    /\ call' = NoCall
    /\ UNCHANGED <<constructed, Coeff>>

NewBMPReliable == \E id \in IdBytes : DoNewBMP(id, 0)
ReadTemperatureReliable ==
    \E a \in AccuracyModes, st \in StatusSeqs : DoReadTemperature(a, st, 0)
ReadPressureReliable ==
    \E a \in AccuracyModes, st \in StatusSeqs : DoReadPressure(a, st, 0)

Next ==
    \/ NewBMPReliable
    \/ ReadTemperatureReliable
    \/ ReadPressureReliable
    \/ TransportChange

Spec == Init /\ [][Next]_vars

\* the same driver against a transport that may fail one operation of a call
NewBMPFaulty == \E id \in IdBytes, f \in 0..MaxFault : DoNewBMP(id, f)
ReadTemperatureFaulty ==
    \E a \in AccuracyModes, st \in StatusSeqs, f \in 0..MaxFault : DoReadTemperature(a, st, f)
ReadPressureFaulty ==
    \E a \in AccuracyModes, st \in StatusSeqs, f \in 0..MaxFault : DoReadPressure(a, st, f)

NextFault ==
    \/ NewBMPFaulty
    \/ ReadTemperatureFaulty
    \/ ReadPressureFaulty

SpecFault == Init /\ [][NextFault]_vars

----------------------------------------------------------------------------
(* IsBusy alone, over every status byte.                                   *)

DoIsBusy(s, failAt) ==
    /\ Let(IsBusy(StartRun(Coeff), Env(0, <<s>>, failAt)), LAMBDA r :
           call' = [NoCall EXCEPT !.op = "IsBusy", !.status = <<s>>, !.ops = r.ops,
                                  !.err = r.err, !.busy = r.busy])
    /\ UNCHANGED <<constructed, Coeff, t_coef, t_temp, t_pres>>

NextBusy == \E s \in Byte, f \in 0..1 : DoIsBusy(s, f)

SpecBusy == Init /\ [][NextBusy]_vars

----------------------------------------------------------------------------
(* ReadCoefficients and IsValidCoefficients alone, over calibration blocks *)
(* in which one coefficient is erased.                                     *)

\* the coefficients and the bytes of the block each one is read from
Fields ==
    << [name |-> "PAR_T1", bytes |-> {1, 2}], [name |-> "PAR_T2", bytes |-> {3, 4}],
       [name |-> "PAR_T3", bytes |-> {5}], [name |-> "PAR_P1", bytes |-> {6, 7}],
       [name |-> "PAR_P2", bytes |-> {8, 9}], [name |-> "PAR_P3", bytes |-> {10}],
       [name |-> "PAR_P4", bytes |-> {11}], [name |-> "PAR_P5", bytes |-> {12, 13}],
       [name |-> "PAR_P6", bytes |-> {14, 15}], [name |-> "PAR_P7", bytes |-> {16}],
       [name |-> "PAR_P8", bytes |-> {17}], [name |-> "PAR_P9", bytes |-> {18, 19}],
       [name |-> "PAR_P10", bytes |-> {20}], [name |-> "PAR_P11", bytes |-> {21}] >>

\* the block c with every byte of coefficient f set to b: b = 0 erases it
\* to 0x0000, b = 255 to 0xFFFF
Erase(c, f, b) == [i \in 1..21 |-> IF i \in Fields[f].bytes THEN b ELSE c[i]]

ValidationBlocks ==
    {BlockA, BlockB}
    \cup {Erase(c, f, b) : c \in {BlockA, BlockB}, f \in DOMAIN Fields, b \in {0, 255}}

InitValid ==
    /\ constructed = FALSE
    /\ Coeff = <<>>
    /\ t_coef \in ValidationBlocks
    /\ t_temp = <<0, 0, 128>>
    /\ t_pres = <<0, 0, 100>>
    /\ call = NoCall

DoReadCoefficients ==
    /\ Let(ReadCoefficients(StartRun(Coeff), Env(0, <<0>>, 0)), LAMBDA r :
           /\ Coeff' = r.Coeff
           /\ call' = [NoCall EXCEPT !.op = "ReadCoefficients", !.entry = Coeff,
                                     !.ops = r.ops, !.err = r.err])
    /\ UNCHANGED <<constructed, t_coef, t_temp, t_pres>>

DoIsValidCoefficients ==
    /\ call' = [NoCall EXCEPT !.op = "IsValidCoefficients", !.entry = Coeff,
                              !.err = IsValidCoefficients(Coeff)]
    /\ UNCHANGED <<constructed, Coeff, t_coef, t_temp, t_pres>>

NextValid ==
    \/ DoReadCoefficients
    \/ DoIsValidCoefficients

SpecValid == InitValid /\ [][NextValid]_vars

----------------------------------------------------------------------------
(* The accessors over more of the range of the raw samples: the chip holds *)
(* any of the samples below, a driver is constructed and reads them.       *)

FormulaBlocks == {BlockA, BlockB}
FormulaTempRegs == {<<0, 0, 0>>, <<64, 226, 1>>, <<0, 0, 128>>, <<255, 255, 255>>}
FormulaPresRegs == {<<0, 0, 0>>, <<57, 48, 6>>, <<0, 0, 100>>, <<255, 255, 255>>}

InitFormula ==
    /\ constructed = FALSE
    /\ Coeff = <<>>
    /\ t_coef \in FormulaBlocks
    /\ t_temp \in FormulaTempRegs
    /\ t_pres \in FormulaPresRegs
    /\ call = NoCall

\* the chip converts again: another raw temperature is in its registers
SampleChange ==
    /\ \E t \in FormulaTempRegs : t /= t_temp /\ t_temp' = t
    /\ call' = NoCall
    /\ UNCHANGED <<constructed, Coeff, t_coef, t_pres>>

ConstructBME680 == DoNewBMP(GetSensorSignature, 0)
CompensateTemperature == DoReadTemperature(ACCURACY_STANDARD, <<96>>, 0)
CompensatePressure == DoReadPressure(ACCURACY_STANDARD, <<96>>, 0)

NextFormula ==
    \/ ConstructBME680
    \/ CompensateTemperature
    \/ CompensatePressure
    \/ SampleChange

SpecFormula == InitFormula /\ [][NextFormula]_vars

----------------------------------------------------------------------------
(* What the claims speak of, read off the operations of the latest call.   *)

IsAccessor(c) == c.op \in {"ReadTemperatureMult100C", "ReadPressureMult10Pa"}

IsRawRead(o) ==
    /\ o.op = "ReadRegBytes"
    /\ o.reg \in {BME680_TEMP_OUT_MSB_LSB_XLSB, BME680_PRES_OUT_MSB_LSB_XLSB}

IsControlWrite(o) == o.op = "WriteRegU8"

IsCoefRead(o) == o.op = "ReadBytes" /\ o.reg = BME680_COEF_START

\* a status poll that came back and on which IsBusy reported not busy
NotBusyReported(o) == IsStatusRead(o) /\ o.ok /\ BitAnd(o.in[1], 96) /= 0

\* the polling phases of a call: the runs of status polls next to each other
PollPhases(ops) ==
    Cardinality({i \in DOMAIN ops :
                    IsStatusRead(ops[i]) /\ (i = 1 \/ ~IsStatusRead(ops[i - 1]))})

\* the bytes the call read from the raw-sample register reg
RawBytes(ops, reg) ==
    ops[CHOOSE i \in DOMAIN ops : ops[i].op = "ReadRegBytes" /\ ops[i].reg = reg].in

\* the calibration block the call read
CoefBytes(ops) == ops[CHOOSE i \in DOMAIN ops : IsCoefRead(ops[i])].in

\* the formula of the accessor on the bytes the call itself read
FormulaOnBytesRead(c) ==
    IF c.op = "ReadTemperatureMult100C"
    THEN Temperature(RawSample(RawBytes(c.ops, BME680_TEMP_OUT_MSB_LSB_XLSB)),
                     CoefBytes(c.ops))
    ELSE Pressure(RawSample(RawBytes(c.ops, BME680_TEMP_OUT_MSB_LSB_XLSB)),
                  RawSample(RawBytes(c.ops, BME680_PRES_OUT_MSB_LSB_XLSB)),
                  CoefBytes(c.ops))

\* the coefficients of the block c that are erased: every byte 0x00, or
\* every byte 0xFF
ErasedFields(c) ==
    {f \in DOMAIN Fields :
        \/ \A i \in Fields[f].bytes : c[i] = 0
        \/ \A i \in Fields[f].bytes : c[i] = 255}

----------------------------------------------------------------------------
(* The claims.                                                             *)

C2_ConstructedOnlyIfValid ==
    (call.op = "NewBMP" /\ call.driver) => ErasedFields(Coeff) = {}

\* C3: when the identity byte NewBMP reads is not the signature of the
\* sensor, NewBMP fails with the signature mismatch, returns no driver, and
\* the identity read is the only transport operation it made.
C3_SignatureMismatch ==
    (/\ call.op = "NewBMP"
     /\ Len(call.ops) >= 1
     /\ call.ops[1].ok
     /\ call.ops[1].in /= <<GetSensorSignature>>)
    => (/\ call.err = "SignatureMismatch"
        /\ ~call.driver
        /\ Len(call.ops) = 1
        /\ call.ops[1].op = "ReadRegU8" /\ call.ops[1].reg = ID_REG)

\* C3, its case: NewBMP has read an identity byte that is not the signature
C3_Witness ==
    /\ call.op = "NewBMP"
    /\ call.ops[1].ok /\ call.ops[1].in = <<88>>
    /\ call.err = "SignatureMismatch"

\* C4: an accessor call that ends with a value or with ConversionTimeout has
\* made exactly one polling phase, never none and never two.
C4_OnePollingPhase ==
    (IsAccessor(call) /\ call.err \in {"", "ConversionTimeout"}) =>
        PollPhases(call.ops) = 1

\* C5: when every status byte of a call has a tracked bit set (the busy
\* bitmask never clears), an accessor call that polls ends with
\* ConversionTimeout after exactly MaxPolls polls.
C5_TimeoutAfterMaxPolls ==
    (/\ IsAccessor(call)
     /\ StatusReads(call.ops) > 0
     /\ \A i \in DOMAIN call.status : BitAnd(call.status[i], 96) /= 0)
    => (call.err = "ConversionTimeout" /\ StatusReads(call.ops) = MaxPolls)

\* C6: IsBusy on the status byte s reports not busy exactly when
\* (s AND 0x60) = 0.
C6_NotBusyIffBitsClear ==
    (call.op = "IsBusy" /\ call.err = "") =>
        (call.busy = FALSE <=> BitAnd(call.status[1], 96) = 0)

\* C7, as amended: IsValidCoefficients succeeds on a block with no erased
\* coefficient; on a block whose only erased coefficient is one other than
\* PAR_P4 it fails with the error naming that coefficient; on a block whose
\* only erased coefficient is PAR_P4 it succeeds.
C7_NamesErasedFieldButP4 ==
    (call.op = "IsValidCoefficients" /\ call.entry /= <<>>) =>
        /\ ErasedFields(call.entry) = {} => call.err = ""
        /\ \A f \in DOMAIN Fields :
              ErasedFields(call.entry) = {f} =>
                  call.err = (IF Fields[f].name = "PAR_P4" THEN "" ELSE Fields[f].name)

\* C7, its case: a block whose only erased coefficient is PAR_P9 was
\* validated, and the error names PAR_P9
C7_Witness ==
    /\ call.op = "IsValidCoefficients"
    /\ call.entry /= <<>>
    /\ ErasedFields(call.entry) = {12}
    /\ call.err = "PAR_P9"

\* C7, as claimed: for any single erased coefficient the error names it
C7_NamesErasedField ==
    (call.op = "IsValidCoefficients" /\ call.entry /= <<>>) =>
        /\ ErasedFields(call.entry) = {} => call.err = ""
        /\ \A f \in DOMAIN Fields :
              ErasedFields(call.entry) = {f} => call.err = Fields[f].name

\* C8: in an accessor call, a transport operation that fails is the last
\* operation of the call, and the call returns the failure and no value.
C8_FailureEndsCall ==
    IsAccessor(call) =>
        \A i \in DOMAIN call.ops :
            ~call.ops[i].ok =>
                /\ i = Len(call.ops)
                /\ call.err = "IOError"
                /\ call.val = Z(0)

\* C8, its case: the first write of a pressure call failed
C8_Witness ==
    /\ call.op = "ReadPressureMult10Pa"
    /\ Len(call.ops) = 1
    /\ ~call.ops[1].ok
    /\ call.err = "IOError"

\* C9: an accessor call that returns a value has read the calibration block
\* exactly once, after its raw-sample reads and as its last operation, and
\* the value is the formula on the raw bytes and the block that call read.
C9_RereadOnceThenFormula ==
    (IsAccessor(call) /\ call.err = "") =>
        /\ Cardinality({i \in DOMAIN call.ops : IsCoefRead(call.ops[i])}) = 1
        /\ IsCoefRead(call.ops[Len(call.ops)])
        /\ \E i \in DOMAIN call.ops : IsRawRead(call.ops[i])
        /\ Coeff = CoefBytes(call.ops)
        /\ call.val = FormulaOnBytesRead(call)

\* C9, its case: an accessor returned a value when the chip's block was no
\* longer the one the driver held on entry
C9_Witness ==
    /\ IsAccessor(call)
    /\ call.err = ""
    /\ call.entry /= Coeff
    /\ call.val /= Z(0)

\* C10: an accessor call that follows the same call (same accessor, same
\* AccuracyMode, same status bytes, no change of the chip's registers
\* between the two), both returning a value, returns the same value.
C10_SameCallSameValue ==
    (IsAccessor(call) /\ call.again /\ call.err = "") => call.val = call.priorVal

\* C10, its case: the same call was made twice in a row and returned a value
\* both times
C10_Witness ==
    /\ IsAccessor(call)
    /\ call.again
    /\ call.err = ""
    /\ call.val /= Z(0)

\* C11: in an accessor call every control-register write comes before the
\* first status poll, and no control-register write lies between a poll on
\* which IsBusy reported not busy and a later raw-sample read.
C11_ControlWritesBeforePolls ==
    IsAccessor(call) =>
        /\ \A i \in DOMAIN call.ops : \A j \in DOMAIN call.ops :
              (IsControlWrite(call.ops[i]) /\ IsStatusRead(call.ops[j])) => i < j
        /\ \A j \in DOMAIN call.ops : \A i \in DOMAIN call.ops :
              (NotBusyReported(call.ops[j]) /\ IsRawRead(call.ops[i]) /\ j < i) =>
                  \A k \in (j + 1)..(i - 1) : ~IsControlWrite(call.ops[k])

\* the raw samples a call read
TempOfCall(c) == RawSample(RawBytes(c.ops, BME680_TEMP_OUT_MSB_LSB_XLSB))
PresOfCall(c) == RawSample(RawBytes(c.ops, BME680_PRES_OUT_MSB_LSB_XLSB))

\* on the raw temperature ut and the block c the pressure accessor's t_lin is
\* the temperature accessor's partial_data6, and val is the pressure formula
\* on that intermediate
LinIsTemperatureIntermediate(ut, up, c, val) ==
    /\ LinFormula(ut, c).t_lin = TempFormula(ut, c).partial_data6
    /\ val = PressFromLin(TempFormula(ut, c).partial_data6, up, c).comp_press

\* C12: in a pressure call that returns a value, the linearized temperature
\* of the pressure formula is what the temperature formula yields before its
\* final scaling, on the raw temperature and the calibration block read in
\* that same call, and the value returned is the pressure formula on it.
C12_LinFromSameCall ==
    (call.op = "ReadPressureMult10Pa" /\ call.err = "") =>
        LinIsTemperatureIntermediate(TempOfCall(call), PresOfCall(call),
                                     CoefBytes(call.ops), call.val)

\* C12, its case: a pressure call returned a value for a raw temperature
\* below 256 * PAR_T1 (the difference is negative, the intermediate too)
C12_Witness ==
    /\ call.op = "ReadPressureMult10Pa"
    /\ call.err = ""
    /\ ZLess(LinFormula(TempOfCall(call), CoefBytes(call.ops)).t_lin, Z(0))
    /\ call.val /= Z(0)

\* the exact result z fits the signed container of k bits
Fits(z, k) == WrapS(z, k) = z

\* no signed operation of the temperature formula leaves its container; s is
\* TempFormula(ut, c).  The conversions from uint64 are not operations.
TempFits(ut, c, s) ==
    /\ Fits(ZMul(Z(256), I32(Z(PAR_T1(c)))), 32)
    /\ Fits(ZSub(Z(ut), I32(ZMul(Z(256), I32(Z(PAR_T1(c)))))), 32)
    /\ Fits(ZMul(I64(s.partial_data3), Z(PAR_T3(c))), 64)
    /\ Fits(ZAdd(I64(MulU64(s.partial_data2, Z(262144))), s.partial_data4), 64)
    /\ Fits(ZMul(s.partial_data6, Z(25)), 64)
    /\ Fits(ZQuo(MulI64(s.partial_data6, Z(25)), <<16384>>), 32)

\* the same for the copy in the pressure accessor; s is LinFormula(ut, c)
LinFits(ut, c, s) ==
    /\ Fits(ZMul(Z(256), I32(Z(PAR_T1(c)))), 32)
    /\ Fits(ZSub(Z(ut), I32(ZMul(Z(256), I32(Z(PAR_T1(c)))))), 32)
    /\ Fits(ZMul(I64(s.partial_data3_t), Z(PAR_T3(c))), 64)
    /\ Fits(ZAdd(I64(MulU64(s.partial_data2_t, Z(262144))), s.partial_data4_t), 64)

\* offset; s is OffsetFormula(t_lin, c)
OffsetFits(t_lin, c, s) ==
    /\ Fits(ZMul(t_lin, t_lin), 64)
    /\ Fits(ZMul(s.partial_data2, t_lin), 64)
    /\ Fits(ZMul(Z(PAR_P8(c)), s.partial_data3), 64)
    /\ Fits(ZMul(Z(PAR_P7(c)), s.partial_data1), 64)
    /\ Fits(ZMul(MulI64(Z(PAR_P7(c)), s.partial_data1), Z(16)), 64)
    /\ Fits(ZMul(Z(PAR_P6(c)), t_lin), 64)
    /\ Fits(ZMul(MulI64(Z(PAR_P6(c)), t_lin), Z(4194304)), 64)
    /\ Fits(ZMul(Z(PAR_P5(c)), ZMake(FALSE, NatPow2(47))), 64)
    /\ Fits(ZAdd(MulI64(Z(PAR_P5(c)), ZMake(FALSE, NatPow2(47))), s.partial_data4), 64)
    /\ Fits(ZAdd(AddI64(MulI64(Z(PAR_P5(c)), ZMake(FALSE, NatPow2(47))), s.partial_data4),
                 s.partial_data5), 64)
    /\ Fits(ZAdd(AddI64(AddI64(MulI64(Z(PAR_P5(c)), ZMake(FALSE, NatPow2(47))), s.partial_data4),
                        s.partial_data5), s.partial_data6), 64)

\* sensitivity; off is OffsetFormula(t_lin, c), s is SensitivityFormula on it
SensitivityFits(t_lin, c, off, s) ==
    /\ Fits(ZMul(Z(PAR_P4(c)), off.partial_data3), 64)
    /\ Fits(ZMul(Z(PAR_P3(c)), off.partial_data1), 64)
    /\ Fits(ZMul(MulI64(Z(PAR_P3(c)), off.partial_data1), Z(4)), 64)
    /\ Fits(ZSub(Z(PAR_P2(c)), Z(16384)), 64)
    /\ Fits(ZMul(SubI64(Z(PAR_P2(c)), Z(16384)), t_lin), 64)
    /\ Fits(ZMul(MulI64(SubI64(Z(PAR_P2(c)), Z(16384)), t_lin), Z(2097152)), 64)
    /\ Fits(ZSub(Z(PAR_P1(c)), Z(16384)), 64)
    /\ Fits(ZMul(SubI64(Z(PAR_P1(c)), Z(16384)), ZMake(FALSE, NatPow2(46))), 64)
    /\ Fits(ZAdd(MulI64(SubI64(Z(PAR_P1(c)), Z(16384)), ZMake(FALSE, NatPow2(46))),
                 s.partial_data2_2), 64)
    /\ Fits(ZAdd(AddI64(MulI64(SubI64(Z(PAR_P1(c)), Z(16384)), ZMake(FALSE, NatPow2(46))),
                        s.partial_data2_2), s.partial_data4_2), 64)
    /\ Fits(ZAdd(AddI64(AddI64(MulI64(SubI64(Z(PAR_P1(c)), Z(16384)), ZMake(FALSE, NatPow2(46))),
                               s.partial_data2_2), s.partial_data4_2), s.partial_data5_2), 64)

\* comp_press; s is PressureFormula(t_lin, up, c, offset, sensitivity)
PressureFits(t_lin, up, c, offset, sensitivity, s) ==
    /\ Fits(ZMul(QuoI64(sensitivity, Div16777216), Z(up)), 64)
    /\ Fits(ZMul(Z(PAR_P10(c)), t_lin), 64)
    /\ Fits(ZMul(Z(65536), Z(PAR_P9(c))), 64)
    /\ Fits(ZAdd(s.partial_data2_3, MulI64(Z(65536), Z(PAR_P9(c)))), 64)
    /\ Fits(ZMul(s.partial_data3_2, Z(up)), 64)
    /\ Fits(ZMul(s.partial_data4_3, Z(up)), 64)
    /\ Fits(ZMul(Z(PAR_P11(c)), s.partial_data6_2), 64)
    /\ Fits(ZMul(s.partial_data2_4, Z(up)), 64)
    /\ Fits(ZAdd(QuoI64(offset, <<4>>), s.partial_data1_2), 64)
    /\ Fits(ZAdd(AddI64(QuoI64(offset, <<4>>), s.partial_data1_2), s.partial_data5_3), 64)
    /\ Fits(ZAdd(AddI64(AddI64(QuoI64(offset, <<4>>), s.partial_data1_2), s.partial_data5_3),
                 s.partial_data3_3), 64)

\* the steps of the pressure accessor after t_lin
PressFitsFromSensitivity(t_lin, up, c, off, sens) ==
    /\ SensitivityFits(t_lin, c, off, sens)
    /\ PressureFits(t_lin, up, c, off.offset, sens.sensitivity,
                    PressureFormula(t_lin, up, c, off.offset, sens.sensitivity))

PressFitsFromOffset(t_lin, up, c, off) ==
    /\ OffsetFits(t_lin, c, off)
    /\ PressFitsFromSensitivity(t_lin, up, c, off,
           SensitivityFormula(t_lin, c, off.partial_data1, off.partial_data3))

PressFitsFromLin(ut, up, c, lin) ==
    /\ LinFits(ut, c, lin)
    /\ PressFitsFromOffset(lin.t_lin, up, c, OffsetFormula(lin.t_lin, c))

\* no signed operation of the accessor's formula leaves its container
FormulaFits(c) ==
    IF c.op = "ReadTemperatureMult100C"
    THEN TempFits(TempOfCall(c), CoefBytes(c.ops),
                  TempFormula(TempOfCall(c), CoefBytes(c.ops)))
    ELSE PressFitsFromLin(TempOfCall(c), PresOfCall(c), CoefBytes(c.ops),
                          LinFormula(TempOfCall(c), CoefBytes(c.ops)))

\* C13: in an accessor call that returns a value computed with a calibration
\* block that passes IsValidCoefficients, no signed operation of the formula
\* yields a result outside its container: int32 for the raw difference and
\* the temperature returned, int64 for the intermediates of both formulas.
C13_NoSignedOverflow ==
    (IsAccessor(call) /\ call.err = "" /\ IsValidCoefficients(CoefBytes(call.ops)) = "") =>
        FormulaFits(call)

============================================================================
